---- MODULE Spec2Model ----
(***************************************************************************)
(* A model of BUSlib.py: the nucleotide codec (stringToBinary,            *)
(* binaryToString) and the BUSFIle container with its header and body     *)
(* codec (read, parseHeader, parseBUS, write, writeHeader, writeBUS).     *)
(*                                                                         *)
(* Python str values are sequences of one-character strings (codec) or of *)
(* code points tagged "str" (header text); bytes values are sequences of  *)
(* integers 0..255 tagged "bytes".  A call that raises is a result whose  *)
(* err field names the exception.                                         *)
(***************************************************************************)
EXTENDS Integers, Sequences, FiniteSets, TLC

VARIABLES
    arg,     \* codec: the input of the conversion under test
    enc,     \* codec: result of the last stringToBinary call
    dec,     \* codec: result of the last binaryToString call
    pc,      \* codec: which calls have been made
    c,       \* container: the caller's BUSFIle instance
    file,    \* container: the bytes stored at the path
    origin,  \* container: how the bytes at the path came to be
    r        \* container: outcome of the last BUSFIle.read of the path

codecVars == <<arg, enc, dec, pc>>
fileVars == <<c, file, origin, r>>
vars == <<arg, enc, dec, pc, c, file, origin, r>>

(***************************************************************************)
(* Bounds                                                                  *)
(***************************************************************************)
MaxLen == 3        \* longest DNA string and largest length argument
MaxRecords == 3    \* most entries a caller puts into bcd by hand

(***************************************************************************)
(* Generic sequence helpers (Python slicing)                               *)
(***************************************************************************)
Min(a, b) == IF a < b THEN a ELSE b

\* s[:n] for n >= 0
Take(s, n) == SubSeq(s, 1, Min(n, Len(s)))

\* s[n:] for n >= 0
Drop(s, n) == SubSeq(s, Min(n, Len(s)) + 1, Len(s))

(***************************************************************************)
(* Nucleotide codec                                                        *)
(***************************************************************************)
Nucleotides == {"A", "C", "G", "T"}

\* The characters the explored inputs are drawn from: the nucleotides, the
\* binary digits, a lowercase letter, and the sign and separator characters
\* that int() accepts.
Alphabet == Nucleotides \cup {"0", "1", "a", "_", "+", "-"}

Strings(n) == UNION {[1..k -> Alphabet] : k \in 0..n}

RECURSIVE replace(_, _, _)
\* str.replace(old, new) for a one-character old
replace(s, old, new) ==
    IF s = <<>> THEN <<>>
    ELSE (IF Head(s) = old THEN new ELSE <<Head(s)>>) \o replace(Tail(s), old, new)

RECURSIVE digitsValue(_, _)
\* value of a string of binary digits and underscores, most significant first
digitsValue(ds, acc) ==
    IF ds = <<>> THEN acc
    ELSE IF Head(ds) = "_" THEN digitsValue(Tail(ds), acc)
    ELSE digitsValue(Tail(ds), 2 * acc + (IF Head(ds) = "1" THEN 1 ELSE 0))

\* int(bs, 2): an optional sign, then binary digits that may be separated by
\* single underscores; anything else (the empty string included) is a
\* ValueError.
intBase2(bs) ==
    LET signed == Len(bs) > 0 /\ bs[1] \in {"+", "-"}
        body == IF signed THEN Tail(bs) ELSE bs
        valid == /\ Len(body) > 0
                 /\ \A i \in 1..Len(body) : body[i] \in {"0", "1", "_"}
                 /\ body[1] # "_"
                 /\ body[Len(body)] # "_"
                 /\ \A i \in 1..(Len(body) - 1) : ~(body[i] = "_" /\ body[i + 1] = "_")
        mag == digitsValue(body, 0)
    IN  IF ~valid THEN [err |-> "ValueError", val |-> 0]
        ELSE [err |-> "", val |-> IF signed /\ bs[1] = "-" THEN 0 - mag ELSE mag]

stringToBinary(s, length) ==
    LET bs == replace(replace(replace(replace(Take(s, length),
                  "A", <<"0", "0">>),
                  "C", <<"0", "1">>),
                  "G", <<"1", "0">>),
                  "T", <<"1", "1">>)
    IN  intBase2(bs)

\* the character chosen by the if/elif chain for (x >> (2 * sh)) & 0x03
symbolAt(x, sh) ==
    LET code == (x \div (4 ^ sh)) % 4
    IN  IF code = 0 THEN "A"
        ELSE IF code = 1 THEN "C"
        ELSE IF code = 2 THEN "G"
        ELSE IF code = 3 THEN "T"
        ELSE "N"

binaryToString(x, length) ==
    [err |-> "", val |-> [i \in 1..length |-> symbolAt(x, length - i)]]

(***************************************************************************)
(* Codec state machine: one input, then the conversions applied to it      *)
(***************************************************************************)
NoInt == [err |-> "unset", val |-> 0]
NoStr == [err |-> "unset", val |-> <<>>]

StrArgs == {[kind |-> "str", s |-> s, length |-> n, x |-> 0] :
                s \in Strings(MaxLen), n \in 0..MaxLen}
IntArgs == {[kind |-> "int", s |-> <<>>, length |-> n, x |-> x] :
                n \in 0..MaxLen, x \in 0..(4 ^ MaxLen)}

\* BUSFIle(): the attribute values set by __init__
Str(cps) == [kind |-> "str", data |-> cps]
Bytes(bs) == [kind |-> "bytes", data |-> bs]

BUSFIle ==
    [text |-> Str(<<>>), bcd |-> <<>>, version |-> 0, bclen |-> 0, umilen |-> 0,
     textlen |-> 0, n_entries |-> 0, format |-> Str(<<>>)]

NoRead == [state |-> "none", err |-> "", inst |-> BUSFIle, parsed |-> FALSE,
           warned |-> FALSE, printed |-> FALSE]
NoOrigin == [kind |-> "none", self |-> BUSFIle, formating |-> "", sort_key |-> "",
             err |-> "", damage |-> "none"]

FileInit ==
    /\ c = BUSFIle
    /\ file = <<>>
    /\ origin = NoOrigin
    /\ r = NoRead

CodecIdle ==
    /\ arg = [kind |-> "none", s |-> <<>>, length |-> 0, x |-> 0]
    /\ enc = NoInt
    /\ dec = NoStr
    /\ pc = "idle"

InitCodec ==
    /\ arg \in StrArgs \cup IntArgs
    /\ enc = NoInt
    /\ dec = NoStr
    /\ pc = "start"
    /\ FileInit

\* stringToBinary(s, length) on the input string
Encode ==
    /\ pc = "start"
    /\ arg.kind = "str"
    /\ enc' = stringToBinary(arg.s, arg.length)
    /\ pc' = "encoded"
    /\ UNCHANGED <<arg, dec>>
    /\ UNCHANGED fileVars

\* binaryToString(stringToBinary(s, length), length): the exception of the
\* inner call propagates
DecodeEncoded ==
    /\ pc = "encoded"
    /\ dec' = IF enc.err # "" THEN [err |-> enc.err, val |-> <<>>]
              ELSE binaryToString(enc.val, arg.length)
    /\ pc' = "decoded_encoded"
    /\ UNCHANGED <<arg, enc>>
    /\ UNCHANGED fileVars

\* binaryToString(x, length) on the input integer
Decode ==
    /\ pc = "start"
    /\ arg.kind = "int"
    /\ dec' = binaryToString(arg.x, arg.length)
    /\ pc' = "decoded"
    /\ UNCHANGED <<arg, enc>>
    /\ UNCHANGED fileVars

\* stringToBinary(binaryToString(x, length), length)
EncodeDecoded ==
    /\ pc = "decoded"
    /\ enc' = IF dec.err # "" THEN [err |-> dec.err, val |-> 0]
              ELSE stringToBinary(dec.val, arg.length)
    /\ pc' = "encoded_decoded"
    /\ UNCHANGED <<arg, dec>>
    /\ UNCHANGED fileVars

NextCodec ==
    \/ Encode
    \/ DecodeEncoded
    \/ Decode
    \/ EncodeDecoded

SpecCodec == InitCodec /\ [][NextCodec]_vars

(***************************************************************************)
(* struct.pack / struct.unpack, little-endian unsigned fields              *)
(***************************************************************************)
MAGIC == <<66, 85, 83, 0>>        \* b"BUS\x00"
BUS == Str(<<66, 85, 83>>)        \* 'BUS'
BUSFORMAT_VERSION == 1
HEADER_FMT == <<4, 4, 4, 4>>      \* '<IIII': the byte size of each field
BLOCK_FMT == <<8, 8, 4, 4, 4, 4>> \* '<QQIIII'

RECURSIVE calcsize(_)
calcsize(fmt) == IF fmt = <<>> THEN 0 ELSE Head(fmt) + calcsize(Tail(fmt))

RECURSIVE uintFits(_, _)
\* 0 <= v < 256^n, the range struct.pack accepts for an n-byte unsigned field
uintFits(v, n) ==
    IF v < 0 THEN FALSE
    ELSE IF n = 0 THEN v = 0
    ELSE uintFits(v \div 256, n - 1)

RECURSIVE packLE(_, _)
\* the n bytes of v, least significant first ('<')
packLE(v, n) == IF n = 0 THEN <<>> ELSE <<v % 256>> \o packLE(v \div 256, n - 1)

RECURSIVE unpackLE(_)
unpackLE(bs) == IF bs = <<>> THEN 0 ELSE Head(bs) + 256 * unpackLE(Tail(bs))

RECURSIVE structPack(_, _)
\* struct.pack(fmt, *vals): struct.error when a value is out of range
structPack(fmt, vals) ==
    IF fmt = <<>> THEN [err |-> "", data |-> <<>>]
    ELSE IF ~uintFits(Head(vals), Head(fmt)) THEN [err |-> "struct.error", data |-> <<>>]
    ELSE LET rest == structPack(Tail(fmt), Tail(vals))
         IN  IF rest.err # "" THEN rest
             ELSE [err |-> "", data |-> packLE(Head(vals), Head(fmt)) \o rest.data]

RECURSIVE unpackFields(_, _)
unpackFields(fmt, buf) ==
    IF fmt = <<>> THEN <<>>
    ELSE <<unpackLE(Take(buf, Head(fmt)))>> \o unpackFields(Tail(fmt), Drop(buf, Head(fmt)))

\* struct.unpack(fmt, buf): struct.error unless buf has exactly calcsize(fmt) bytes
structUnpack(fmt, buf) ==
    IF Len(buf) # calcsize(fmt) THEN [err |-> "struct.error", vals |-> <<>>]
    ELSE [err |-> "", vals |-> unpackFields(fmt, buf)]

\* the UTF-8 bytes of one code point (below 65536)
utf8(cp) ==
    IF cp < 128 THEN <<cp>>
    ELSE IF cp < 2048 THEN <<192 + (cp \div 64), 128 + (cp % 64)>>
    ELSE <<224 + (cp \div 4096), 128 + ((cp \div 64) % 64), 128 + (cp % 64)>>

RECURSIVE encode(_)
\* str.encode()
encode(cps) == IF cps = <<>> THEN <<>> ELSE utf8(Head(cps)) \o encode(Tail(cps))

(***************************************************************************)
(* BUSFIle: the header and body codec.  bcd, an insertion-ordered dict, is *)
(* a sequence of [bc, vals] items with distinct bc.                        *)
(***************************************************************************)
None == "None"

\* "if not sort_key": None and the empty string are falsy
truthy(sort_key) == sort_key \notin {None, ""}

writeHeader(self) ==
    LET text_bytes == IF self.text.kind = "str" THEN encode(self.text.data)
                      ELSE self.text.data
        packed == structPack(HEADER_FMT,
                      <<self.version, self.bclen, self.umilen, Len(text_bytes)>>)
    IN  IF packed.err # "" THEN [err |-> packed.err, out |-> MAGIC]
        ELSE [err |-> "", out |-> MAGIC \o packed.data \o text_bytes]

RECURSIVE writeValueSwapped(_, _)
writeValueSwapped(bc, value) ==
    IF value = <<>> THEN [err |-> "", out |-> <<>>]
    ELSE LET tup == Head(value)
             block == structPack(BLOCK_FMT, <<bc, tup[1], tup[3], tup[2], tup[4], 0>>)
         IN  IF block.err # "" THEN [err |-> block.err, out |-> <<>>]
             ELSE LET rest == writeValueSwapped(bc, Tail(value))
                  IN  [err |-> rest.err, out |-> block.data \o rest.out]

RECURSIVE writeValue(_, _)
\* "for tup in value": one block per tuple, up to the first pack that raises
writeValue(bc, value) ==
    IF value = <<>> THEN [err |-> "", out |-> <<>>]
    ELSE LET tup == Head(value)
             block == structPack(BLOCK_FMT, <<bc, tup[1], tup[2], tup[3], tup[4], 0>>)
         IN  IF block.err # "" THEN [err |-> block.err, out |-> <<>>]
             ELSE LET rest == writeValue(bc, Tail(value))
                  IN  [err |-> rest.err, out |-> block.data \o rest.out]

RECURSIVE writeItems(_)
\* "for bc, value in self.bcd.items()"
writeItems(items) ==
    IF items = <<>> THEN [err |-> "", out |-> <<>>]
    ELSE LET first == writeValue(Head(items).bc, Head(items).vals)
         IN  IF first.err # "" THEN first
             ELSE LET rest == writeItems(Tail(items))
                  IN  [err |-> rest.err, out |-> first.out \o rest.out]

writeBUS(self, sort_key) ==
    IF ~truthy(sort_key) THEN writeItems(self.bcd)
    ELSE [err |-> "", out |-> <<>>]

\* write(outf, formating): the bytes the file holds when the with-block is left
write(self, formating) ==
    LET h == writeHeader(self)
    IN  IF h.err # "" THEN h
        ELSE IF formating = "BUS"
             THEN LET b == writeBUS(self, None)
                  IN  [err |-> b.err, out |-> h.out \o b.out]
             ELSE h

\* the rest of parseHeader once the magic matched
parseFields(self, inf) ==
    LET h == structUnpack(HEADER_FMT, Take(inf, 16))
        inf1 == Drop(inf, 16)
    IN  IF h.err # "" THEN [err |-> h.err, self |-> self, inf |-> inf1, warned |-> FALSE]
        ELSE LET self1 == [self EXCEPT !.version = h.vals[1], !.bclen = h.vals[2],
                                       !.umilen = h.vals[3], !.textlen = h.vals[4]]
                 warned == self1.version # BUSFORMAT_VERSION
                 tb == Take(inf1, self1.textlen)
                 inf2 == Drop(inf1, self1.textlen)
             IN  IF Len(tb) # self1.textlen
                 THEN [err |-> "struct.error", self |-> self1, inf |-> inf2,
                       warned |-> warned]
                 ELSE [err |-> "", self |-> [self1 EXCEPT !.text = Bytes(tb)],
                       inf |-> inf2, warned |-> warned]

parseHeaderNoReturn(self, inf) ==
    LET magic == Take(inf, 4)
    IN  IF Len(magic) # 4
        THEN [err |-> "struct.error", self |-> self, inf |-> Drop(inf, 4), warned |-> FALSE]
        ELSE parseFields([self EXCEPT !.format = IF magic = MAGIC THEN BUS ELSE Bytes(magic)],
                         Drop(inf, 4))

parseHeader(self, inf) ==
    LET magic == Take(inf, 4)
    IN  IF Len(magic) # 4
        THEN [err |-> "struct.error", self |-> self, inf |-> Drop(inf, 4), warned |-> FALSE]
        ELSE IF magic = MAGIC
             THEN parseFields([self EXCEPT !.format = BUS], Drop(inf, 4))
             ELSE [err |-> "", self |-> [self EXCEPT !.format = Bytes(magic)],
                   inf |-> Drop(inf, 4), warned |-> FALSE]

unpackBlockPadded(b) ==
    [err |-> "", vals |-> unpackFields(BLOCK_FMT, b \o [i \in 1..(32 - Len(b)) |-> 0])]

\* struct.unpack('<QQIIII', b)
unpackBlock(b) == structUnpack(BLOCK_FMT, b)

hasKey(bcd, bc) == \E i \in 1..Len(bcd) : bcd[i].bc = bc

bcdOverwrite(bcd, bc, tup) ==
    IF hasKey(bcd, bc)
    THEN [i \in 1..Len(bcd) |->
              IF bcd[i].bc = bc THEN [bcd[i] EXCEPT !.vals = <<tup>>] ELSE bcd[i]]
    ELSE Append(bcd, [bc |-> bc, vals |-> <<tup>>])

\* try: self.bcd[bc].append(tup)  except KeyError: self.bcd[bc] = [tup]
bcdAppend(bcd, bc, tup) ==
    IF hasKey(bcd, bc)
    THEN [i \in 1..Len(bcd) |->
              IF bcd[i].bc = bc THEN [bcd[i] EXCEPT !.vals = Append(@, tup)] ELSE bcd[i]]
    ELSE Append(bcd, [bc |-> bc, vals |-> <<tup>>])

RECURSIVE parseLoop(_, _, _)
\* "while b:" with b the block just read and inf what follows it
parseLoop(self, b, inf) ==
    IF b = <<>> THEN [err |-> "", self |-> self]
    ELSE LET u == unpackBlock(b)
         IN  IF u.err # "" THEN [err |-> u.err, self |-> self]
             ELSE parseLoop([self EXCEPT !.n_entries = @ + 1,
                                         !.bcd = bcdAppend(@, u.vals[1],
                                                     <<u.vals[2], u.vals[3], u.vals[4], u.vals[5]>>)],
                            Take(inf, 32), Drop(inf, 32))

parseBUS(self, inf) ==
    parseLoop([self EXCEPT !.n_entries = @ + 1], Take(inf, 32), Drop(inf, 32))

\* BUSFIle.read(in_file) on a file holding data; a raised exception returns no
\* instance
read(data) ==
    LET h == parseHeader(BUSFIle, data)
    IN  IF h.err # ""
        THEN [state |-> "error", err |-> h.err, inst |-> BUSFIle, parsed |-> FALSE,
              warned |-> h.warned, printed |-> FALSE]
        ELSE IF h.self.format = BUS
             THEN LET b == parseBUS(h.self, h.inf)
                  IN  IF b.err # ""
                      THEN [state |-> "error", err |-> b.err, inst |-> BUSFIle,
                            parsed |-> TRUE, warned |-> h.warned, printed |-> FALSE]
                      ELSE [state |-> "ok", err |-> "", inst |-> b.self,
                            parsed |-> TRUE, warned |-> h.warned, printed |-> FALSE]
             ELSE [state |-> "ok", err |-> "", inst |-> h.self, parsed |-> FALSE,
                   warned |-> h.warned, printed |-> TRUE]

(***************************************************************************)
(* Container state machine: a caller builds an instance, writes it, the    *)
(* stored bytes may be damaged, and the path is read back                   *)
(***************************************************************************)
T1 == <<9, 2, 1, 0>>
T2 == <<300, 4, 2, 1>>
Records == {<<5, T1>>, <<5, T2>>, <<7, T1>>}
Texts == {Str(<<233>>)}
Versions == {BUSFORMAT_VERSION, -1}
Formatings == {"BUS", "txt"}
SortKeys == {None, "", "barcode"}
Damages == {"cut12", "cut31", "magic", "append", "short"}

\* a well-formed block another writer appends to the stream: barcode 5, T2,
\* and a padding field that is not zero
AppendedBlock == structPack(BLOCK_FMT, <<5, T2[1], T2[2], T2[3], T2[4], 1>>).data

RECURSIVE total(_)
\* the number of tuples in a record map
total(bcd) == IF bcd = <<>> THEN 0 ELSE Len(Head(bcd).vals) + total(Tail(bcd))

emptyKeys(bcd) == Cardinality({i \in 1..Len(bcd) : bcd[i].vals = <<>>})

textBytes(text) == IF text.kind = "str" THEN encode(text.data) ELSE text.data

Init ==
    /\ FileInit
    /\ CodecIdle

\* the caller starts over: instance = BUSFIle(), and a path not yet written
New ==
    /\ c # BUSFIle \/ origin.kind # "none"
    /\ c' = BUSFIle
    /\ file' = <<>>
    /\ origin' = NoOrigin
    /\ r' = NoRead
    /\ UNCHANGED codecVars

\* the caller assigns text, and textlen too when sync
SetText ==
    /\ origin.kind = "none"
    /\ c.text.data = <<>>
    /\ \E t \in Texts, sync \in BOOLEAN :
          c' = [c EXCEPT !.text = t,
                         !.textlen = IF sync THEN Len(textBytes(t)) ELSE @]
    /\ UNCHANGED <<file, origin, r>>
    /\ UNCHANGED codecVars

\* the caller assigns version, bclen and umilen
SetHeader ==
    /\ origin.kind = "none"
    /\ c.version = 0
    /\ c.bclen = 0
    /\ \E v \in Versions :
          c' = [c EXCEPT !.version = v, !.bclen = 16, !.umilen = 12]
    /\ UNCHANGED <<file, origin, r>>
    /\ UNCHANGED codecVars

\* the caller does bcd.setdefault(bc, []).append(tup)
AddRecord ==
    /\ origin.kind = "none"
    /\ total(c.bcd) + emptyKeys(c.bcd) < MaxRecords
    /\ \E rec \in Records :
          c' = [c EXCEPT !.bcd =
                  IF hasKey(@, rec[1])
                  THEN [i \in 1..Len(@) |->
                          IF @[i].bc = rec[1]
                          THEN [bc |-> @[i].bc, vals |-> Append(@[i].vals, rec[2])]
                          ELSE @[i]]
                  ELSE Append(@, [bc |-> rec[1], vals |-> <<rec[2]>>])]
    /\ UNCHANGED <<file, origin, r>>
    /\ UNCHANGED codecVars

\* the caller does bcd[bc] = [] for a barcode not yet present
AddKey ==
    /\ origin.kind = "none"
    /\ total(c.bcd) + emptyKeys(c.bcd) < MaxRecords
    /\ \E bc \in {7} :
          /\ ~hasKey(c.bcd, bc)
          /\ c' = [c EXCEPT !.bcd = Append(@, [bc |-> bc, vals |-> <<>>])]
    /\ UNCHANGED <<file, origin, r>>
    /\ UNCHANGED codecVars

\* c.write(path, formating)
Write ==
    /\ origin.kind = "none"
    /\ \E formating \in Formatings :
          LET w == write(c, formating)
          IN  /\ file' = w.out
              /\ origin' = [kind |-> "write", self |-> c, formating |-> formating,
                            sort_key |-> None, err |-> w.err, damage |-> "none"]
    /\ r' = NoRead
    /\ UNCHANGED c
    /\ UNCHANGED codecVars

\* with open(path, 'wb') as fout: c.writeBUS(fout, sort_key)
WriteBody ==
    /\ origin.kind = "none"
    /\ \E sort_key \in SortKeys :
          LET w == writeBUS(c, sort_key)
          IN  /\ file' = w.out
              /\ origin' = [kind |-> "writeBUS", self |-> c, formating |-> "",
                            sort_key |-> sort_key, err |-> w.err, damage |-> "none"]
    /\ r' = NoRead
    /\ UNCHANGED c
    /\ UNCHANGED codecVars

\* the stored bytes are changed outside the program: truncated, the magic
\* overwritten, or one more block appended
Damage ==
    /\ origin.kind = "write"
    /\ origin.err = ""
    /\ origin.damage = "none"
    /\ \E d \in Damages :
          /\ d = "cut12" => Len(file) >= 12
          /\ d = "cut31" => Len(file) >= 31
          /\ d = "append" => (/\ origin.formating = "BUS"
                              /\ total(origin.self.bcd) < MaxRecords)
          /\ file' = CASE d = "cut12" -> Take(file, Len(file) - 12)
                        [] d = "cut31" -> Take(file, Len(file) - 31)
                        [] d = "magic" -> <<88, 88, 88, 88>> \o Drop(file, 4)
                        [] d = "append" -> file \o AppendedBlock
                        [] d = "short" -> Take(file, 2)
          /\ origin' = [origin EXCEPT !.damage = d]
    /\ r' = NoRead
    /\ UNCHANGED c
    /\ UNCHANGED codecVars

\* BUSFIle.read(path)
Read ==
    /\ origin.kind # "none"
    /\ r.state = "none"
    /\ r' = read(file)
    /\ UNCHANGED <<c, file, origin>>
    /\ UNCHANGED codecVars

\* the caller goes on with the instance read returned, and a path not yet
\* written
Adopt ==
    /\ r.state = "ok"
    /\ c' = r.inst
    /\ file' = <<>>
    /\ origin' = NoOrigin
    /\ r' = NoRead
    /\ UNCHANGED codecVars

Next ==
    \/ New
    \/ SetText
    \/ SetHeader
    \/ AddRecord
    \/ AddKey
    \/ Write
    \/ WriteBody
    \/ Damage
    \/ Read
    \/ Adopt

Spec == Init /\ [][Next]_vars

(***************************************************************************)
(* What the claims speak of                                                *)
(***************************************************************************)
\* the header of the stored bytes, and the body stream that follows it
hdr == parseHeader(BUSFIle, file)
ValidHeader == hdr.err = "" /\ hdr.self.format = BUS
body == hdr.inf

RECURSIVE blocksOf(_)
\* the 32-byte blocks of a stream, each field read by its offset in the
\* record layout
blocksOf(stream) ==
    IF Len(stream) < 32 THEN <<>>
    ELSE <<[bc |-> unpackLE(SubSeq(stream, 1, 8)),
            tup |-> <<unpackLE(SubSeq(stream, 9, 16)), unpackLE(SubSeq(stream, 17, 20)),
                      unpackLE(SubSeq(stream, 21, 24)), unpackLE(SubSeq(stream, 25, 28))>>,
            pad |-> unpackLE(SubSeq(stream, 29, 32))]>>
         \o blocksOf(Drop(stream, 32))

\* the tuples of the blocks that carry bc, in stream order
tuplesOf(blocks, bc) ==
    LET carries(b) == b.bc = bc
        sel == SelectSeq(blocks, carries)
    IN  [i \in 1..Len(sel) |-> sel[i].tup]

RECURSIVE flat(_)
\* one block per tuple of a record map, in insertion order, padding 0
flat(bcd) ==
    IF bcd = <<>> THEN <<>>
    ELSE [i \in 1..Len(Head(bcd).vals) |->
              [bc |-> Head(bcd).bc, tup |-> Head(bcd).vals[i], pad |-> 0]]
         \o flat(Tail(bcd))

SameHeader(w, x) ==
    /\ x.version = w.version
    /\ x.bclen = w.bclen
    /\ x.umilen = w.umilen
    /\ textBytes(x.text) = textBytes(w.text)
    /\ x.textlen = w.textlen

\* write(path) completed and read(path) was called on the bytes it stored
RoundTripCase ==
    /\ origin.kind = "write"
    /\ origin.err = ""
    /\ origin.formating = "BUS"
    /\ origin.damage = "none"
    /\ r.state # "none"

RoundTripHolds ==
    /\ r.state = "ok"
    /\ SameHeader(origin.self, r.inst)
    /\ r.inst.bcd = origin.self.bcd

\* textlen is the byte length of text and no barcode maps to an empty list
Consistent(w) ==
    /\ w.textlen = Len(textBytes(w.text))
    /\ \A i \in 1..Len(w.bcd) : w.bcd[i].vals # <<>>

\* C1 as stated: for every container, write(path) then read(path) yields the
\* same header fields (version, barcode_length, umi_length, text, text length)
\* and the same grouped record map.
C1_RoundTripEveryContainer == RoundTripCase => RoundTripHolds

\* C1 amended: the round trip holds for every container whose textlen is the
\* byte length of its text and whose record map has no empty list.
C1_RoundTripConsistent == (RoundTripCase /\ Consistent(origin.self)) => RoundTripHolds

\* a container obtained from a read, with text and three records under two
\* barcodes, was written and read back
C1_Witness ==
    /\ RoundTripCase
    /\ Consistent(origin.self)
    /\ origin.self.format = BUS
    /\ origin.self.text = Bytes(<<195, 169>>)
    /\ Len(origin.self.bcd) = 2
    /\ total(origin.self.bcd) = 3
    /\ r.state = "ok"

\* C2: for every string s of length n over {A,C,G,T}, n = 0 included,
\* binaryToString(stringToBinary(s, n), n) returns s.
C2_DecodeEncode ==
    (/\ pc = "decoded_encoded"
     /\ Len(arg.s) = arg.length
     /\ \A i \in 1..Len(arg.s) : arg.s[i] \in Nucleotides)
    => (dec.err = "" /\ dec.val = arg.s)

\* C3: for every n and every x with 0 <= x < 4^n, n = 0 included,
\* stringToBinary(binaryToString(x, n), n) returns x.
C3_EncodeDecode ==
    (pc = "encoded_decoded" /\ arg.x < 4 ^ arg.length)
    => (enc.err = "" /\ enc.val = arg.x)

\* The law of C2 for the lengths n >= 1 (supplementary: what holds of the code)
C2_DecodeEncodeNonEmpty ==
    (/\ pc = "decoded_encoded"
     /\ arg.length >= 1
     /\ Len(arg.s) = arg.length
     /\ \A i \in 1..Len(arg.s) : arg.s[i] \in Nucleotides)
    => (dec.err = "" /\ dec.val = arg.s)

\* The law of C3 for the lengths n >= 1 (supplementary: what holds of the code)
C3_EncodeDecodeNonEmpty ==
    (pc = "encoded_decoded" /\ arg.length >= 1 /\ arg.x < 4 ^ arg.length)
    => (enc.err = "" /\ enc.val = arg.x)

\* a read of stored bytes whose header is valid and whose body length is not
\* a multiple of 32
TruncatedCase ==
    /\ r.state # "none"
    /\ ValidHeader
    /\ Len(body) % 32 # 0

\* C4: when the body after a valid header is not a multiple of 32 bytes long,
\* read ends in an error and returns no container.
C4_TruncatedIsError ==
    TruncatedCase => (r.state = "error" /\ r.err = "struct.error" /\ r.parsed)

\* a body of one whole block followed by 20 bytes was read
C4_Witness ==
    /\ TruncatedCase
    /\ Len(body) = 32 + 20
    /\ r.state = "error"

\* a read of stored bytes whose first 4 bytes are not the tag
BadMagicCase ==
    /\ r.state # "none"
    /\ Len(file) >= 4
    /\ Take(file, 4) # MAGIC

\* C5: when the first 4 bytes are not "BUS\0", read returns normally with
\* format equal to those bytes, every other attribute at its initial value
\* (no header field read, empty record map, n_entries 0) and parseBUS not
\* called.
C5_BadMagic ==
    BadMagicCase =>
        /\ r.state = "ok"
        /\ r.inst = [BUSFIle EXCEPT !.format = Bytes(Take(file, 4))]
        /\ ~r.parsed

\* bytes that begin "XXXX" and go on with header fields, text and two blocks
\* were read
C5_Witness ==
    /\ BadMagicCase
    /\ Take(file, 4) = <<88, 88, 88, 88>>
    /\ Len(file) = 4 + 16 + 2 + 64
    /\ r.state = "ok"

\* a read of stored bytes whose header is valid and whose body is k whole
\* blocks
WholeBlocksCase ==
    /\ r.state # "none"
    /\ ValidHeader
    /\ Len(body) % 32 = 0

\* C6: after parseBUS on k well-formed blocks, the keys of the map are the
\* barcodes the blocks carry, the list under each barcode is the tuples of
\* its blocks in stream order, and the map holds k tuples in all.
C6_Grouping ==
    WholeBlocksCase =>
        LET blocks == blocksOf(body)
            m == r.inst.bcd
        IN  /\ r.state = "ok"
            /\ r.parsed
            /\ \A i, j \in 1..Len(m) : m[i].bc = m[j].bc => i = j
            /\ {m[i].bc : i \in 1..Len(m)} = {blocks[i].bc : i \in 1..Len(blocks)}
            /\ \A i \in 1..Len(m) : m[i].vals = tuplesOf(blocks, m[i].bc)
            /\ total(m) = Len(blocks)

\* three blocks with barcodes 5, 7, 5 and two different tuples under 5 were
\* parsed
C6_Witness ==
    /\ WholeBlocksCase
    /\ r.state = "ok"
    /\ LET blocks == blocksOf(body)
       IN  /\ Len(blocks) = 3
           /\ blocks[1].bc = 5 /\ blocks[2].bc = 7 /\ blocks[3].bc = 5
           /\ blocks[1].tup # blocks[3].tup
           /\ blocks[3].pad # 0

\* C7: stringToBinary(s, length) raises whenever s has fewer than length
\* characters.
C7_ShortInputFails ==
    (pc = "encoded" /\ Len(arg.s) < arg.length) => enc.err # ""

\* C8: stringToBinary(s, length) raises whenever one of the first length
\* characters of s is outside {A,C,G,T}.
C8_BadSymbolFails ==
    (/\ pc = "encoded"
     /\ \E i \in 1..Min(Len(arg.s), arg.length) : arg.s[i] \notin Nucleotides)
    => enc.err # ""

\* C9: after parseBUS on k well-formed blocks into a fresh container,
\* n_entries is k, and it is the number of tuples in the record map.
C9_EntryCount ==
    (r.state = "ok" /\ r.parsed) =>
        /\ r.inst.n_entries = Len(blocksOf(body))
        /\ r.inst.n_entries = total(r.inst.bcd)

\* C10: writeBUS writes one block (barcode, umi, ec, count, flag, 0) per tuple
\* of the map whether or not sort_key is given, and in insertion order when it
\* is absent.
C10_OneBlockPerTuple ==
    (origin.kind = "writeBUS" /\ origin.err = "" /\ origin.damage = "none") =>
        /\ Len(file) = 32 * total(origin.self.bcd)
        /\ ~truthy(origin.sort_key) => blocksOf(file) = flat(origin.self.bcd)

====
